---- MODULE Spec2Model ----
(***************************************************************************)
(* Verification model of PSD_deploy.py: the parallel read of the raw DAS   *)
(* files and their assembly (lines 138-160), the probability density       *)
(* builder ppsd (lines 77-108), the weighted statistics psd_stats (lines   *)
(* 110-118) and the channel-bin loop (lines 166-180).                      *)
(*                                                                         *)
(* Three specifications share the module:                                  *)
(*   SpecRead  file listing, pool.map over the read tasks, np.concatenate  *)
(*   SpecPsd   ppsd from its histogram step on, and psd_stats, as pure     *)
(*             functions of inputs drawn from bounded sets                 *)
(*   SpecLoop  the channel-bin loop over hour_data                         *)
(*                                                                         *)
(* Numbers.  Frequencies and powers are handled by the code only through   *)
(* log10 and log-spaced bins, so a positive value is represented by its    *)
(* position ("level") on an integer grid of log10 values; the value 0 and  *)
(* the value NaN are the model values Zero and NaN.  Arithmetic is that of *)
(* the reals: the rounding of 10**log10(x) is not modelled.                *)
(***************************************************************************)
EXTENDS Integers, Sequences, FiniteSets, TLC

(***************************************************************************)
(* Bounds of the model                                                     *)
(***************************************************************************)
MaxFiles == 3
MaxStart == 1
MaxNum == 3
NCh == 2
MaxSamples == 2
MaxFreqLevel == 2
MaxPowLevel == 2
MaxInRows == 2
NsLoop == 4
MaxAmpLevel == 1
new_fs == 2

(***************************************************************************)
(* Program constants                                                       *)
(***************************************************************************)
num_proc == 2
NXEdges == 100
NYEdges == 200
start_ch == 0
end_ch == 9000
channel_bin == 200
channel_interval == 2000
loop_fmin == 0

None == "None"

NaN == 0 - 2
Zero == 0 - 1

VARIABLES
    \* ---- read and assembly (lines 138-152)
    listing,         \* os.listdir(data_dir): the directory in arbitrary order
    start_file,      \* index of the first file to read
    num_file,        \* number of files to merge
    file_list,       \* the sorted names, None before line 139 ran
    tasks,           \* file_path[start_file:start_file+num_file]
    status,          \* per task: "pending", "running", "done", "failed"
    results,         \* the result slots of pool.map, by task index
    completed,       \* task indexes in the order the workers finished them
    full_time,       \* the list pool.map returned, None before
    full_time_data,  \* the concatenated matrix, None before
    pc,              \* position of the script
    \* ---- ppsd and psd_stats as functions (lines 102-118)
    freq,            \* the flattened frequency samples handed to histogram2d
    spec,            \* the flattened power samples handed to histogram2d
    fmin,            \* lower end of the frequency range
    fmax,            \* upper end of the frequency range
    pout,            \* outcome of the call of ppsd
    sout,            \* outcome of the call of psd_stats
    ppc,             \* position of the caller of the two functions
    \* ---- the channel-bin loop (lines 160-180)
    hour_data,       \* the (channel x time) matrix the bins are sliced from
    amp_type,        \* "strain" or "strain_rate"
    li,              \* position of the for loop in ch_list, from 1
    trs_span,        \* the channel indexes of the slice trs of the last bin
    curves,          \* the curves plotted so far, by bin center
    lpc              \* "loop", "done", or "aborted" by an exception

rvars == <<listing, start_file, num_file, file_list, tasks, status, results,
           completed, full_time, full_time_data, pc>>

pvars == <<freq, spec, fmin, fmax, pout, sout, ppc>>

lvars == <<hour_data, amp_type, li, trs_span, curves, lpc>>

vars == <<rvars, pvars, lvars>>

(***************************************************************************)
(* Helpers                                                                 *)
(***************************************************************************)
Range(s) == {s[i] : i \in DOMAIN s}

\* F applied to the value of x, with x evaluated once
With(x, F(_)) == CHOOSE y \in {F(v) : v \in {x}} : TRUE

\* the array f with every entry computed
Force(f) == f @@ <<>>

Min(S) == CHOOSE x \in S : \A y \in S : x <= y

Max(S) == CHOOSE x \in S : \A y \in S : x >= y

\* sequences without repetition over S, of every length up to Cardinality(S)
InjSeqs(S) ==
    UNION {{s \in [1..n -> S] : \A i, j \in 1..n : i # j => s[i] # s[j]} :
           n \in 0..Cardinality(S)}

\* s[a:b] of Python for 0 <= a, with the end clipped to the length
PySlice(s, a, b) ==
    LET hi == IF b < Len(s) THEN b ELSE Len(s)
    IN  IF a >= hi THEN <<>> ELSE [k \in 1..(hi - a) |-> s[a + k]]

(***************************************************************************)
(* File names are represented by their rank in the string order: name m    *)
(* sorts before name n iff m < n.                                          *)
(***************************************************************************)
Names == 1..MaxFiles

\* file_list[np.argsort(file_list)]
argsort_take(l) == SortSeq(l, LAMBDA a, b : a < b)

\* number of time samples of the array read from file f
FileLen(f) == 1 + (f % 2)

\* the (channel x time) array the reader returns for file f; each sample
\* is tagged with its file, channel and time index
read_decimate(f) == [c \in 1..NCh |-> [t \in 1..FileLen(f) |-> <<f, c, t>>]]

RECURSIVE ConcatRows(_, _, _)
ConcatRows(arrs, c, k) ==
    IF k = 0 THEN <<>> ELSE ConcatRows(arrs, c, k - 1) \o arrs[k][c]

\* np.concatenate(arrs, axis=1) of a non-empty list
np_concatenate(arrs) == [c \in 1..NCh |-> ConcatRows(arrs, c, Len(arrs))]

NumRunning == Cardinality({i \in DOMAIN status : status[i] = "running"})

\* the list pool.map hands back: the result slots in task order
map_value_completion(res, done) == [k \in 1..Len(done) |-> res[done[k]]]

map_value(res, done) == res

\* MapResult is ready once no task is left
map_ready_any(st) == \E i \in DOMAIN st : st[i] \in {"done", "failed"}

map_ready(st) == \A i \in DOMAIN st : st[i] \in {"done", "failed"}

IdleRead ==
    /\ listing = <<>>
    /\ start_file = 0
    /\ num_file = 0
    /\ file_list = None
    /\ tasks = <<>>
    /\ status = <<>>
    /\ results = <<>>
    /\ completed = <<>>
    /\ full_time = None
    /\ full_time_data = None
    /\ pc = "idle"

IdlePsd ==
    /\ freq = <<>>
    /\ spec = <<>>
    /\ fmin = 0
    /\ fmax = 0
    /\ pout = None
    /\ sout = None
    /\ ppc = "idle"

IdleLoop ==
    /\ hour_data = <<>>
    /\ amp_type = "strain_rate"
    /\ li = 0
    /\ trs_span = {}
    /\ curves = <<>>
    /\ lpc = "idle"

InitRead ==
    /\ listing \in InjSeqs(Names)
    /\ start_file \in 0..MaxStart
    /\ num_file \in 1..MaxNum
    /\ file_list = None
    /\ tasks = <<>>
    /\ status = <<>>
    /\ results = <<>>
    /\ completed = <<>>
    /\ full_time = None
    /\ full_time_data = None
    /\ pc = "list"
    /\ IdlePsd
    /\ IdleLoop

\* lines 138-148 up to the submission of the tasks to the pool
ListDir ==
    /\ pc = "list"
    /\ file_list' = argsort_take(listing)
    /\ tasks' = PySlice(file_list', start_file, start_file + num_file)
    /\ status' = [i \in 1..Len(tasks') |-> "pending"]
    /\ results' = [i \in 1..Len(tasks') |-> None]
    /\ pc' = "pool"
    /\ UNCHANGED <<listing, start_file, num_file, completed, full_time,
                   full_time_data>>
    /\ UNCHANGED <<pvars, lvars>>

\* an idle worker takes the next task of the task queue
StartTask(i) ==
    /\ pc = "pool"
    /\ i \in DOMAIN status
    /\ status[i] = "pending"
    /\ \A j \in 1..(i - 1) : status[j] # "pending"
    /\ NumRunning < num_proc
    /\ status' = [status EXCEPT ![i] = "running"]
    /\ UNCHANGED <<listing, start_file, num_file, file_list, tasks, results,
                   completed, full_time, full_time_data, pc>>
    /\ UNCHANGED <<pvars, lvars>>

\* a worker returns the array of its file; the result goes to the slot of
\* the task
FinishTask(i) ==
    /\ pc = "pool"
    /\ i \in DOMAIN status
    /\ status[i] = "running"
    /\ status' = [status EXCEPT ![i] = "done"]
    /\ results' = [results EXCEPT ![i] = read_decimate(tasks[i])]
    /\ completed' = Append(completed, i)
    /\ UNCHANGED <<listing, start_file, num_file, file_list, tasks,
                   full_time, full_time_data, pc>>
    /\ UNCHANGED <<pvars, lvars>>

\* the read of a file raises in its worker
FailTask(i) ==
    /\ pc = "pool"
    /\ i \in DOMAIN status
    /\ status[i] = "running"
    /\ status' = [status EXCEPT ![i] = "failed"]
    /\ completed' = Append(completed, i)
    /\ UNCHANGED <<listing, start_file, num_file, file_list, tasks, results,
                   full_time, full_time_data, pc>>
    /\ UNCHANGED <<pvars, lvars>>

\* pool.map returns: the list of results, or the exception of a failed task
\* re-raised in the script, which ends it
PoolJoin ==
    /\ pc = "pool"
    /\ map_ready(status)
    /\ IF \E i \in DOMAIN status : status[i] = "failed"
       THEN /\ pc' = "aborted"
            /\ UNCHANGED full_time
       ELSE /\ pc' = "concat"
            /\ full_time' = map_value(results, completed)
    /\ UNCHANGED <<listing, start_file, num_file, file_list, tasks, status,
                   results, completed, full_time_data>>
    /\ UNCHANGED <<pvars, lvars>>

\* line 152; np.concatenate of an empty list raises ValueError
Concatenate ==
    /\ pc = "concat"
    /\ IF Len(full_time) = 0
       THEN /\ pc' = "aborted"
            /\ UNCHANGED full_time_data
       ELSE /\ pc' = "done"
            /\ full_time_data' = np_concatenate(full_time)
    /\ UNCHANGED <<listing, start_file, num_file, file_list, tasks, status,
                   results, completed, full_time>>
    /\ UNCHANGED <<pvars, lvars>>

NextRead ==
    \/ ListDir
    \/ \E i \in 1..MaxNum : StartTask(i)
    \/ \E i \in 1..MaxNum : FinishTask(i)
    \/ \E i \in 1..MaxNum : FailTask(i)
    \/ PoolJoin
    \/ Concatenate

SpecRead == InitRead /\ [][NextRead]_vars

(***************************************************************************)
(* ppsd from line 102 on, and psd_stats                                    *)
(*                                                                         *)
(* A value is NaN, Zero or a level k >= 0 (the positive number whose       *)
(* log10 sits at position k of the level grid).  Zero < every level, as    *)
(* 0 < every positive number.                                              *)
(***************************************************************************)
IsLevel(v) == v >= 0

FreqVals == {Zero} \cup 0..MaxFreqLevel

PowVals == {NaN, Zero} \cup 0..MaxPowLevel

RECURSIVE SumFun(_)
SumFun(f) ==
    IF DOMAIN f = {} THEN 0
    ELSE LET x == CHOOSE x \in DOMAIN f : TRUE
         IN  f[x] + SumFun([y \in DOMAIN f \ {x} |-> f[y]])

\* the sum of f, taken over the arguments where f is not 0
SumNonzero(f) == SumFun([x \in {y \in DOMAIN f : f[y] # 0} |-> f[x]])

\* np.nanmin: the least value that is not NaN; NaN when there is none
np_nanmin(a) ==
    LET fin == Range(a) \ {NaN}
    IN  IF fin = {} THEN NaN ELSE Min(fin)

\* the least value that is finite and positive; NaN when there is none
np_nanmin_positive(a) ==
    LET pos == {v \in Range(a) : IsLevel(v)}
    IN  IF pos = {} THEN NaN ELSE Min(pos)

\* np.nanmax
np_nanmax(a) ==
    LET fin == Range(a) \ {NaN}
    IN  IF fin = {} THEN NaN ELSE Max(fin)

(***************************************************************************)
(* np.logspace(np.log10(vmin), np.log10(vmax), n): n edges.  With both     *)
(* ends positive the edges are evenly spaced in log10 from vmin to vmax.   *)
(* log10(0) is -inf and np.linspace from -inf yields NaN at every position *)
(* but the last, which is set to the stop value; log10(NaN) is NaN.        *)
(***************************************************************************)
np_logspace(vmin, vmax, n) ==
    [finite |-> IsLevel(vmin) /\ IsLevel(vmax),
     first  |-> IF IsLevel(vmin) /\ IsLevel(vmax) THEN vmin ELSE NaN,
     last   |-> vmax,
     n      |-> n]

\* (e[1:] + e[:-1])/2 : the n-1 midpoints of n edges
centers(e) == [finite |-> e.finite, first |-> e.first, last |-> e.last,
               n |-> e.n - 1]

Outlier == 0 - 1
Invalid == 0 - 2

(***************************************************************************)
(* The bin of value v among the edges e, as np.histogramdd computes it:    *)
(* np.searchsorted(e, v, side='right') then one step to the left for a     *)
(* value equal to the last edge.  The result is the index of a bin         *)
(* (0 .. n-2), Outlier for a value outside the edges, or Invalid for the   *)
(* coordinate -1 that np.ravel_multi_index rejects: among NaN edges the    *)
(* search of a number ends at position 0, and a number equal to the last   *)
(* edge is then moved to -1.                                               *)
(***************************************************************************)
digitize(e, v) ==
    IF e.finite
    THEN IF ~IsLevel(v) THEN Outlier
         ELSE IF v = e.last THEN e.n - 2
         ELSE IF e.first <= v /\ v < e.last
              THEN ((v - e.first) * (e.n - 1)) \div (e.last - e.first)
         ELSE Outlier
    ELSE IF v = NaN THEN Outlier
         ELSE IF v = e.last THEN Invalid
         ELSE Outlier

\* the edges of one axis decrease: histogramdd raises ValueError
decreasing(e) == e.finite /\ e.first > e.last

\* np.histogram2d(x, y, bins=(xb, yb)): the counts of the occupied cells
np_histogram2d(x, y, xb, yb) ==
    IF decreasing(xb) \/ decreasing(yb) THEN [err |-> "ValueError"]
    ELSE
    With(Force([s \in DOMAIN x |-> <<digitize(xb, x[s]), digitize(yb, y[s])>>]),
         LAMBDA at :
    With({s \in DOMAIN x : at[s][1] >= 0 /\ at[s][2] >= 0},
         LAMBDA inside :
        IF \E s \in DOMAIN x : at[s][1] = Invalid \/ at[s][2] = Invalid
        THEN [err |-> "ValueError"]
        ELSE [err |-> "none",
              H |-> Force([c \in {at[s] : s \in inside} |->
                              Cardinality({s \in inside : at[s] = c})])]))

\* np.nansum(H): the total over the whole histogram
np_nansum_all(cnt, i) == SumFun(cnt)

\* np.nansum(H, axis=1, keepdims=True)[i]: the total of row i
np_nansum_axis1(cnt, i) ==
    SumFun([c \in {d \in DOMAIN cnt : d[1] = i} |-> cnt[c]])

(***************************************************************************)
(* The normalised histogram H/np.nansum(H, axis=1) is kept as the counts   *)
(* of the occupied cells and the divisor of every row: entry (i, j) is     *)
(* cnt(i, j)/div[i], and 0/0 is NaN.                                       *)
(***************************************************************************)
CountAt(cnt, i, j) == IF <<i, j>> \in DOMAIN cnt THEN cnt[<<i, j>>] ELSE 0

Hval(H, i, j) ==
    IF H.div[i] = 0
    THEN [nan |-> TRUE, n |-> 0, d |-> 0]
    ELSE [nan |-> FALSE, n |-> CountAt(H.cnt, i, j), d |-> H.div[i]]

\* lines 102-108
ppsd_pdf(fr, sp, fmn, fmx) ==
    With(np_logspace(fmn, fmx, NXEdges), LAMBDA xbins :
    With(np_logspace(np_nanmin(sp), np_nanmax(sp), NYEdges), LAMBDA ybins :
    With(np_histogram2d(fr, sp, xbins, ybins), LAMBDA h :
        IF h.err # "none" THEN [err |-> h.err, xe |-> xbins, ye |-> ybins]
        ELSE [err |-> "none", xe |-> xbins, ye |-> ybins,
              H  |-> [cnt |-> h.H,
                      div |-> Force([i \in 0..(NXEdges - 2) |->
                                        np_nansum_axis1(h.H, i)])],
              xm |-> centers(xbins),
              ym |-> centers(ybins)])))

(***************************************************************************)
(* psd_stats.  log10(ym[j]) is a + b*j for the centers of log-spaced       *)
(* edges, so the weighted mean of row i is a + b*S/W and the variance is   *)
(* b*b*(Q/W - (S/W)^2) with W the total of the row, S the sum of cnt*j and *)
(* Q the sum of cnt*j*j; the model keeps S, Q and W.  np.average raises    *)
(* ZeroDivisionError when the weights sum to 0, and yields NaN when they   *)
(* are NaN.                                                                *)
(***************************************************************************)
RowW(H, i) == np_nansum_axis1(H.cnt, i)

RowS(H, i) ==
    SumFun([c \in {d \in DOMAIN H.cnt : d[1] = i} |-> H.cnt[c] * c[2]])

RowQ(H, i) ==
    SumFun([c \in {d \in DOMAIN H.cnt : d[1] = i} |-> H.cnt[c] * c[2] * c[2]])

NanMean == [nan |-> TRUE, s |-> 0, w |-> 0]

NanVar == [nan |-> TRUE, q |-> 0, s |-> 0, w |-> 0]

\* np.average raises for row i: finite weights that sum to zero
average_raises(H, i) == H.div[i] # 0 /\ RowW(H, i) = 0

psd_stats(H, xm, ym) ==
    LET rows == 0..(xm.n - 1)
        sentinel(i) == H.div[i] = 0 \/ ~ym.finite
    IN  IF \E i \in rows : average_raises(H, i)
        THEN [err |-> "ZeroDivisionError"]
        ELSE [err |-> "none",
              xm |-> xm,
              mn |-> Force([i \in rows |->
                        IF sentinel(i) THEN NanMean
                        ELSE [nan |-> FALSE, s |-> RowS(H, i),
                              w |-> RowW(H, i)]]),
              vr |-> Force([i \in rows |->
                        IF sentinel(i) THEN NanVar
                        ELSE [nan |-> FALSE, q |-> RowQ(H, i),
                              s |-> RowS(H, i), w |-> RowW(H, i)]])]

(***************************************************************************)
(* Histograms handed to psd_stats by a caller other than ppsd: F rows and  *)
(* two power bins, unit counts in a set of cells, every row with mass      *)
(* normalised and every row without mass all zero.                         *)
(***************************************************************************)
InputHist(F, cells) ==
    [H  |-> [cnt |-> [c \in cells |-> 1],
             div |-> [i \in 0..(F - 1) |->
                        IF \E c \in cells : c[1] = i
                        THEN Cardinality({c \in cells : c[1] = i})
                        ELSE 1]],
     xm |-> [finite |-> TRUE, first |-> 0, last |-> 1, n |-> F],
     ym |-> [finite |-> TRUE, first |-> 0, last |-> 1, n |-> 2]]

HistInputs ==
    UNION {{InputHist(F, cells) : cells \in SUBSET ((0..(F - 1)) \X (0..1))} :
           F \in 1..MaxInRows}

InitPsd ==
    /\ \/ /\ \E n \in 1..MaxSamples :
                /\ freq \in [1..n -> FreqVals]
                /\ spec \in [1..n -> PowVals]
          /\ fmin \in 0..MaxFreqLevel
          /\ fmax \in 0..MaxFreqLevel
          /\ pout = None
          /\ ppc = "start"
       \/ /\ freq = <<>>
          /\ spec = <<>>
          /\ fmin = 0
          /\ fmax = 0
          /\ pout \in HistInputs
          /\ ppc = "given"
    /\ sout = None
    /\ IdleRead
    /\ IdleLoop

\* H, xm, ym = ppsd(...) from its line 102 on
CallPpsd ==
    /\ ppc = "start"
    /\ pout' = ppsd_pdf(freq, spec, fmin, fmax)
    /\ ppc' = IF pout'.err = "none" THEN "built" ELSE "raised"
    /\ UNCHANGED <<freq, spec, fmin, fmax, sout>>
    /\ UNCHANGED <<rvars, lvars>>

\* xm, mn, vr = psd_stats(H, xm, ym)
CallPsdStats ==
    /\ ppc \in {"built", "given"}
    /\ sout' = psd_stats(pout.H, pout.xm, pout.ym)
    /\ ppc' = IF sout'.err = "none" THEN "reduced" ELSE "stats_raised"
    /\ UNCHANGED <<freq, spec, fmin, fmax, pout>>
    /\ UNCHANGED <<rvars, lvars>>

NextPsd ==
    \/ CallPpsd
    \/ CallPsdStats

SpecPsd == InitPsd /\ [][NextPsd]_vars

(***************************************************************************)
(* Properties of the read and assembly                                     *)
(***************************************************************************)
DirSet == Range(listing)

\* position of name n in the sorted directory, from 0
Rank(n) == Cardinality({m \in DirSet : m < n})

\* the names at positions start_file .. start_file+num_file-1
Requested ==
    {n \in DirSet : start_file <= Rank(n) /\ Rank(n) < start_file + num_file}

RECURSIVE AscConcat(_, _)
AscConcat(S, c) ==
    IF S = {} THEN <<>>
    ELSE read_decimate(Min(S))[c] \o AscConcat(S \ {Min(S)}, c)

\* C1: the assembled matrix is, on every channel, the concatenation of the
\* per-file arrays of the requested files in ascending filename order,
\* whatever the order of the directory listing and of the completions.
C1_FilenameOrder ==
    pc = "done" => \A c \in 1..NCh : full_time_data[c] = AscConcat(Requested, c)

\* the workers finished out of task order and the listing was not sorted
C1_Witness ==
    /\ pc = "done"
    /\ Len(completed) >= 2
    /\ completed[1] > completed[2]
    /\ \E i \in 1..(Len(listing) - 1) : listing[i] > listing[i + 1]

\* C2: concatenation is reached only with every read task returned without
\* failure, and the list it assembles has one array per requested file; a
\* failed read leaves no assembled matrix.
C2_JoinBarrier ==
    pc \in {"concat", "done"} =>
        /\ \A i \in DOMAIN status : status[i] = "done"
        /\ Len(full_time) = Len(tasks)
        /\ Len(tasks) = Cardinality(Requested)

\* one read failed, another returned, and the run ended without a matrix
C2_Witness ==
    /\ pc = "aborted"
    /\ \E i \in DOMAIN status : status[i] = "failed"
    /\ \E i \in DOMAIN status : status[i] = "done"
    /\ full_time_data = None

(***************************************************************************)
(* Properties of ppsd and psd_stats                                        *)
(***************************************************************************)
\* ppsd was called and returned a histogram
PpsdReturned == Len(freq) > 0 /\ ppc \in {"built", "reduced", "stats_raised"}

\* ppsd was called and either returned or raised
PpsdCalled == Len(freq) > 0 /\ ppc # "start"

RowCells(H, i) == {c \in DOMAIN H.cnt : c[1] = i}

\* C3: in the histogram ppsd returns, the entries of every frequency row
\* that received a sample are numbers whose sum is 1.
C3_RowsSumToOne ==
    PpsdReturned =>
        \A i \in 0..(NXEdges - 2) :
            RowCells(pout.H, i) # {} =>
                /\ \A j \in 0..(NYEdges - 2) : ~Hval(pout.H, i, j).nan
                /\ SumNonzero([j \in 0..(NYEdges - 2) |->
                                  Hval(pout.H, i, j).n])
                       = Hval(pout.H, i, 0).d

\* a returned histogram with a row whose mass is split over two power bins
C3_Witness ==
    /\ PpsdReturned
    /\ \E i \in 0..(NXEdges - 2) : Cardinality(RowCells(pout.H, i)) >= 2

\* C4: in the histogram ppsd returns, a frequency row that received no
\* sample is a row of zeros; no entry is NaN.
C4_ZeroRowsAreZero ==
    PpsdReturned =>
        \A i \in 0..(NXEdges - 2) : \A j \in 0..(NYEdges - 2) :
            /\ ~Hval(pout.H, i, j).nan
            /\ RowCells(pout.H, i) = {} => Hval(pout.H, i, j).n = 0

\* C5: psd_stats does not raise, returns mean and variance of length F, and
\* marks every row of zero total weight with NaN in both.
C5_StatsNeverRaise ==
    /\ ppc # "stats_raised"
    /\ ppc = "reduced" =>
          /\ DOMAIN sout.mn = 0..(pout.xm.n - 1)
          /\ DOMAIN sout.vr = 0..(pout.xm.n - 1)
          /\ sout.xm.n = pout.xm.n
          /\ \A i \in 0..(pout.xm.n - 1) :
                RowCells(pout.H, i) = {} =>
                    sout.mn[i].nan /\ sout.vr[i].nan

\* C6: every call of ppsd with fmin >= fmax fails.
C6_InvalidRangeFails ==
    (PpsdCalled /\ fmin >= fmax) => pout.err # "none"

\* C8: when some power sample is finite and positive, ppsd does not fail,
\* its lowest power edge is the least finite positive sample and its
\* highest edge the greatest finite sample.
C8_PowerEdges ==
    (PpsdCalled /\ fmin < fmax /\ \E s \in DOMAIN spec : IsLevel(spec[s])) =>
        /\ pout.err = "none"
        /\ pout.ye.first = np_nanmin_positive(spec)
        /\ pout.ye.last = np_nanmax(spec)

(***************************************************************************)
(* The channel-bin loop (lines 160-180) and ppsd as a whole (lines 77-108) *)
(*                                                                         *)
(* Samples of hour_data are integers, in a unit chosen so that the mean of *)
(* NsLoop and of NsLoop-1 samples is again an integer.                     *)
(***************************************************************************)
half_bin == channel_bin \div 2

NumCh == end_ch - start_ch

loop_fmax == MaxFreqLevel

Unit == NsLoop * (NsLoop - 1)

Dead == 0 - 1

Abs(x) == IF x < 0 THEN 0 - x ELSE x

RECURSIVE Pow10(_)
Pow10(k) == IF k = 0 THEN 1 ELSE 10 * Pow10(k - 1)

\* the integer part of log10(n), 0 for n < 10
RECURSIVE ilog10(_)
ilog10(n) == IF n < 10 THEN 0 ELSE 1 + ilog10(n \div 10)

RECURSIVE SumSeq(_)
SumSeq(q) == IF q = <<>> THEN 0 ELSE Head(q) + SumSeq(Tail(q))

Reverse(q) == [k \in 1..Len(q) |-> q[Len(q) + 1 - k]]

\* np.arange(a, b, step) for step > 0
np_arange(a, b, step) ==
    IF b <= a THEN <<>>
    ELSE [k \in 1..((b - a + step - 1) \div step) |-> a + (k - 1) * step]

\* the bin centers, reversed, with a stride shorter than a bin
ch_list_short_stride ==
    Reverse(np_arange(half_bin + 1, end_ch - start_ch, channel_bin - 1))

\* line 166
ch_list ==
    Reverse(np_arange(half_bin + 1, end_ch - start_ch, channel_interval))

\* the indexes a:b selects on an axis of length n (negative bounds count
\* from the end, bounds beyond the axis are clipped)
slice_rows(a, b, n) ==
    LET norm(x) == IF x < 0 THEN (IF n + x < 0 THEN 0 ELSE n + x)
                   ELSE (IF x > n THEN n ELSE x)
    IN  norm(a)..(norm(b) - 1)

\* a channel without signal
dead_row == [t \in 1..NsLoop |-> 0]

\* a channel with one pulse of amplitude 10^(k + ch % 2) units
live_row(k, ch) ==
    [t \in 1..NsLoop |-> IF t = 2 THEN Pow10(k + (ch % 2)) * Unit ELSE 0]

\* np.mean of one row
row_mean(row) == SumSeq(row) \div Len(row)

\* data -= np.mean(data, axis=1, keepdims=True)
demean(data) ==
    Force([r \in DOMAIN data |->
              Force([t \in DOMAIN data[r] |-> data[r][t] - row_mean(data[r])])])

\* np.diff(trs, axis=1) * new_fs
diff_scaled(data) ==
    Force([r \in DOMAIN data |->
              Force([t \in 1..(Len(data[r]) - 1) |->
                        (data[r][t + 1] - data[r][t]) * new_fs])])

(***************************************************************************)
(* sgn.detrend followed by sgn.periodogram, lines 89-96.  The transform is *)
(* not computed; what the model keeps of it: a row that is a straight line *)
(* in time leaves nothing after the linear detrend and has power 0 at      *)
(* every frequency, any other row has positive power, on a level that      *)
(* grows with log10 of the size of its curvature.  The frequency axis has  *)
(* ns//2 + 1 entries: 0 first, then one level per entry.                   *)
(***************************************************************************)
power_of_row(row) ==
    LET d2 == {Abs(row[t] - 2 * row[t + 1] + row[t + 2]) :
                  t \in 1..(Len(row) - 2)}
    IN  IF d2 = {} \/ Max(d2 \cup {0}) = 0 THEN Zero
        ELSE ilog10(Max(d2) \div Unit)

periodogram(data) ==
    LET nx == Len(data)
        nf == (Len(data[1]) \div 2) + 1
    IN  [freq |-> Force([s \in 1..(nx * nf) |->
                      IF (s - 1) % nf = 0 THEN Zero ELSE ((s - 1) % nf) - 1]),
         spec |-> Force([s \in 1..(nx * nf) |->
                      power_of_row(data[((s - 1) \div nf) + 1])])]

\* ppsd, lines 77-108: inplace is what line 88 leaves in the caller's array
ppsd(data, fmn, fmx) ==
    With(demean(data), LAMBDA d :
    With(periodogram(d), LAMBDA pg :
        [inplace |-> d, out |-> ppsd_pdf(pg.freq, pg.spec, fmn, fmx)]))

\* number of stretches of channel_interval channels on the channel axis
NSeg == (NumCh + channel_interval - 1) \div channel_interval

InitLoop ==
    /\ \E dead \in SUBSET (0..(NSeg - 1)) : \E k \in 0..MaxAmpLevel :
          hour_data = [ch \in 0..(NumCh - 1) |->
                          IF (ch \div channel_interval) \in dead
                          THEN dead_row
                          ELSE live_row(k, ch)]
    /\ amp_type \in {"strain", "strain_rate"}
    /\ li = 1
    /\ trs_span = {}
    /\ curves = <<>>
    /\ lpc = IF Len(ch_list) = 0 THEN "done" ELSE "loop"
    /\ IdleRead
    /\ IdlePsd

\* the rows of hour_data at the channel indexes of span, as the array trs
rows_of(hd, span) ==
    Force([k \in 1..Cardinality(span) |-> hd[Min(span) + k - 1]])

\* one pass of the body of the for loop, lines 169-180
BinStep ==
    /\ lpc = "loop"
    /\ \E chan \in {ch_list[li]} :
       \E span \in {slice_rows(chan - half_bin, chan + half_bin, NumCh)} :
       \E view \in {rows_of(hour_data, span)} :
       \E trs \in {IF amp_type = "strain" THEN diff_scaled(view) ELSE view} :
       \E r \in {ppsd(trs, loop_fmin, loop_fmax)} :
           /\ trs_span' = span
           \* trs is a view of hour_data unless np.diff made a new array:
           \* the in-place subtraction of line 88 writes through the view
           /\ hour_data' =
                 IF amp_type = "strain" THEN hour_data
                 ELSE [ch \in DOMAIN hour_data |->
                          IF ch \in span THEN r.inplace[ch - Min(span) + 1]
                          ELSE hour_data[ch]]
           /\ IF r.out.err # "none"
              THEN /\ lpc' = "aborted"
                   /\ UNCHANGED <<li, curves>>
              ELSE \E st \in {psd_stats(r.out.H, r.out.xm, r.out.ym)} :
                   IF st.err # "none"
                   THEN /\ lpc' = "aborted"
                        /\ UNCHANGED <<li, curves>>
                   ELSE /\ curves' = [c \in DOMAIN curves \cup {chan} |->
                                         IF c = chan
                                         THEN [xm |-> st.xm, mn |-> st.mn,
                                               vr |-> st.vr]
                                         ELSE curves[c]]
                        /\ li' = li + 1
                        /\ lpc' = IF li = Len(ch_list) THEN "done" ELSE "loop"
    /\ UNCHANGED amp_type
    /\ UNCHANGED <<rvars, pvars>>

NextLoop == BinStep

SpecLoop == InitLoop /\ [][NextLoop]_vars

(***************************************************************************)
(* Properties of the loop                                                  *)
(***************************************************************************)
BinSpan(c) == (c - half_bin)..(c + half_bin - 1)

\* the call of ppsd for the bin at position k of ch_list fails
BinFails(k) ==
    \E view \in {rows_of(hour_data, BinSpan(ch_list[k]))} :
    \E trs \in {IF amp_type = "strain" THEN diff_scaled(view) ELSE view} :
        ppsd(trs, loop_fmin, loop_fmax).out.err # "none"

\* C7: when the loop has ended, every bin whose own call of ppsd does not
\* fail has its curve, whichever other bin failed.
C7_OtherBinsEmitted ==
    lpc \in {"done", "aborted"} =>
        \A k \in 1..Len(ch_list) :
            BinFails(k) \/ ch_list[k] \in DOMAIN curves

\* C9: no step of the loop changes hour_data.
C9_HourDataUnchanged == [][hour_data' = hour_data]_vars

\* C10: the slice of every center is the span [c - half_bin, c + half_bin),
\* inside the channel axis, of 2*half_bin channels, and disjoint from the
\* span of every other center; the slice the loop took last is the span of
\* its center.
C10_BinSpans ==
    lpc # "idle" =>
        /\ \A k \in 1..Len(ch_list) :
              /\ slice_rows(ch_list[k] - half_bin, ch_list[k] + half_bin, NumCh)
                    = BinSpan(ch_list[k])
              /\ BinSpan(ch_list[k]) \subseteq 0..(NumCh - 1)
              /\ Cardinality(BinSpan(ch_list[k])) = 2 * half_bin
              /\ \A l \in 1..Len(ch_list) :
                    l # k => BinSpan(ch_list[k]) \cap BinSpan(ch_list[l]) = {}
        /\ (lpc = "aborted") => trs_span = BinSpan(ch_list[li])
        /\ (lpc # "aborted" /\ li > 1) => trs_span = BinSpan(ch_list[li - 1])

\* the loop went through every center and plotted a curve for each
C10_Witness ==
    /\ lpc = "done"
    /\ Len(ch_list) >= 2
    /\ DOMAIN curves = Range(ch_list)

====
